---------------------------- MODULE Spec2Model ----------------------------
(***************************************************************************)
(* Model of the SQL agent of src/app.py: the LangGraph turn loop           *)
(* (model -> tools_router -> tool_node -> model ...), the MemorySaver      *)
(* checkpoint store keyed by thread_id, and generate_chat_responses, the   *)
(* generator that projects the graph's events onto the SSE notifications.  *)
(*                                                                         *)
(* Strings that the code concatenates or tests for emptiness are modelled  *)
(* as sequences of tokens: "" is << >>, concatenation is \o.               *)
(***************************************************************************)
EXTENDS Naturals, Sequences, FiniteSets

\* ------------------------------------------------------------------ bounds

\* model calls made in one behaviour (the code does not limit them)
MaxSteps == 2

\* the requests of one behaviour, each served by its own generator: they may
\* follow each other or overlap
Turns == {1, 2}
\* the thread identifiers (uuid4 values and client supplied checkpoint ids)
ThreadIds == {"x", "y"}
\* the user messages of the requests
UserMessages == {<<"q">>}
\* the chunk contents one model call may stream, in order: nothing, or an
\* empty chunk followed by a fragment of text
ModelStreams == {<< >>, << << >>, <<"a">> >>}

\* the chunk contents of these streams
Chunks == UNION {{s[n] : n \in 1..Len(s)} : s \in ModelStreams}

NoId == "none"

\* ------------------------------------------------------------- constants

SYSTEM_PROMPT == <<"SYSTEM_PROMPT">>

LIST_TABLES == "sql_db_list_tables"
QUERY == "sql_db_query"
\* a tool name the model invents: bound to no tool
OTHER_TOOL == "other_tool"
ToolNames == {LIST_TABLES, QUERY, OTHER_TOOL}

\* argument mappings are sets of <<key, value>> pairs
NoArgs == {}
QueryArgs(q) == {<<"query", <<q>> >>}

Call(name, args) == [name |-> name, args |-> args, id |-> << >>]

\* the tool calls one assistant message may carry, before the inference
\* service numbers them
ModelCalls ==
    { << >>,
      <<Call(LIST_TABLES, NoArgs)>>,
      <<Call(QUERY, QueryArgs("SELEC")), Call(QUERY, QueryArgs("SELECT"))>>,
      <<Call(OTHER_TOOL, NoArgs), Call(QUERY, NoArgs), Call(LIST_TABLES, NoArgs)>> }

\* dict.get(key, default)
Get(args, key, default) ==
    IF \E p \in args : p[1] = key
    THEN (CHOOSE p \in args : p[1] = key)[2]
    ELSE default

\* ---------------------------------------------------------------- messages

Msg(type, content, tool_calls, tool_call_id, name) ==
    [type |-> type, content |-> content, tool_calls |-> tool_calls,
     tool_call_id |-> tool_call_id, name |-> name]

SystemMessage(content) == Msg("system", content, << >>, << >>, "")
HumanMessage(content) == Msg("human", content, << >>, << >>, "")
AIMessage(content, tool_calls) == Msg("ai", content, tool_calls, << >>, "")
ToolMessage(content, tool_call_id, name) == Msg("tool", content, << >>, tool_call_id, name)

\* a State whose messages have no reducer: the update takes their place
add_messages_replace(left, right) == right

\* the reducer of State.messages: every message of this program is created
\* with a fresh id, so the merge by id never replaces and the update is appended
add_messages(left, right) == left \o right

\* ----------------------------------------------------------- notifications

Note(type, data) == [type |-> type, data |-> data]

VARIABLES
    store,          \* MemorySaver: thread_id -> messages of the latest checkpoint
    pc,             \* position of each generator
    thread_id,      \* config["configurable"]["thread_id"] of each generator
    is_new,         \* is_new_conversation
    message,        \* the request's message
    messages,       \* the graph run's State.messages (its channel value)
    out,            \* the notifications the generator has yielded
    streamed,       \* chunk contents streamed so far by the model call in flight
    tool_messages,  \* tool_node's local list
    steps,          \* model calls made so far
    prior,          \* the messages the graph run loaded from the checkpoint
    events,         \* the events astream_events has produced in the turn
    hung            \* the turns whose tool invocation in flight never returns

vars == <<store, pc, thread_id, is_new, message, messages, out, streamed,
          tool_messages, steps, prior, events, hung>>

Active == {"start", "model", "route", "tools"}

\* thread identifiers of the generators that are running
Busy == {thread_id[t] : t \in {u \in Turns : pc[u] \in Active}}

Init ==
    /\ store = [i \in ThreadIds |-> << >>]
    /\ pc = [t \in Turns |-> "idle"]
    /\ thread_id = [t \in Turns |-> NoId]
    /\ is_new = [t \in Turns |-> FALSE]
    /\ message = [t \in Turns |-> << >>]
    /\ messages = [t \in Turns |-> << >>]
    /\ out = [t \in Turns |-> << >>]
    /\ streamed = [t \in Turns |-> << >>]
    /\ tool_messages = [t \in Turns |-> << >>]
    /\ steps = 0
    /\ prior = [t \in Turns |-> << >>]
    /\ events = [t \in Turns |-> << >>]
    /\ hung = {}


\* ------------------------------------------------------- checkpoint store

\* MemorySaver.aget_tuple: the latest checkpoint of the thread, empty if none
GetCheckpoint(st, tid) == st[tid]

\* a store that keeps one checkpoint for all threads
PutCheckpointShared(st, tid, msgs) == [i \in DOMAIN st |-> msgs]

\* MemorySaver.aput: the checkpoint of the thread becomes msgs
PutCheckpoint(st, tid, msgs) == [st EXCEPT ![tid] = msgs]

\* ------------------------------------------------------- event projection

Event(event, name, data) == [event |-> event, name |-> name, data |-> data]

\* a projector that takes the calls of every tool for queries
SqlQueryCallsAll(tool_calls) == tool_calls

\* the query tool calls of a finished model call
SqlQueryCalls(tool_calls) == SelectSeq(tool_calls, LAMBDA call : call.name = QUERY)

\* a projector that reports the result of every tool
ProjectionAnyTool(e) ==
    IF e.event = "on_chat_model_stream"
    THEN IF e.data # << >> THEN <<Note("content", e.data)>> ELSE << >>
    ELSE IF e.event = "on_chat_model_end"
    THEN IF SqlQueryCalls(e.data) # << >>
         THEN <<Note("sql_query_start", Get(SqlQueryCalls(e.data)[1].args, "query", << >>))>>
         ELSE << >>
    ELSE IF e.event = "on_tool_end"
    THEN <<Note("sql_query_result", e.data)>>
    ELSE << >>

\* the body of the async for loop: the notifications one event yields
Projection(e) ==
    IF e.event = "on_chat_model_stream"
    THEN IF e.data # << >> THEN <<Note("content", e.data)>> ELSE << >>
    ELSE IF e.event = "on_chat_model_end"
    THEN IF SqlQueryCalls(e.data) # << >>
         THEN <<Note("sql_query_start", Get(SqlQueryCalls(e.data)[1].args, "query", << >>))>>
         ELSE << >>
    ELSE IF e.event = "on_tool_end"
    THEN IF e.name = QUERY THEN <<Note("sql_query_result", e.data)>> ELSE << >>
    ELSE << >>

\* a generator that announces the thread of every turn
CheckpointNoteAlways(new, tid) == <<Note("checkpoint", tid)>>

\* the notification that opens the stream of a new conversation
CheckpointNote(new, tid) == IF new THEN <<Note("checkpoint", tid)>> ELSE << >>

\* the messages given to the graph as input
InputMessages(new, m) ==
    IF new THEN <<SystemMessage(SYSTEM_PROMPT), HumanMessage(m)>>
    ELSE <<HumanMessage(m)>>

\* a generator that yields nothing after the event loop
EndNoteMissing == << >>

\* the notification after the event loop
EndNote == <<Note("end", << >>)>>

\* ---------------------------------------------------------------- actions

\* the messages the run of turn t has added to the input
TurnMessages(t) ==
    SubSeq(messages[t],
           Len(prior[t]) + Len(InputMessages(is_new[t], message[t])) + 1,
           Len(messages[t]))

\* the rounds of tools in the run of turn t: the batches of tool messages
ToolSteps(t) ==
    Cardinality({i \in 2..Len(TurnMessages(t)) :
                    /\ TurnMessages(t)[i].type = "tool"
                    /\ TurnMessages(t)[i - 1].type = "ai"})

\* the default of the recursion_limit of a graph run: the config given to
\* astream_events sets none
RECURSION_LIMIT == 25

\* the supersteps the run of turn t has made: one for every model call that
\* returned and one for every round of tools
Supersteps(t) ==
    Cardinality({i \in 1..Len(TurnMessages(t)) : TurnMessages(t)[i].type = "ai"})
        + ToolSteps(t)

\* the run may go on to a superstep that finds nothing left to do within the
\* limit; a run that made more is out of steps
InSteps(t) == Supersteps(t) <= RECURSION_LIMIT

\* identifiers that name no thread and that no running turn uses
Unused == {i \in ThreadIds : store[i] = << >> /\ i \notin Busy}

\* str(uuid4()): an identifier nobody uses
Uuid4 == CHOOSE i \in Unused : TRUE

\* generate_chat_responses up to the call of astream_events: a request with
\* checkpoint_id cid (NoId: none given) and message m is served by generator t
Begin(t, m, cid) ==
    /\ pc[t] = "idle"
    \* the requests are numbered in the order of their arrival
    /\ \A u \in Turns : u < t => pc[u] # "idle"
    /\ \E tid \in ThreadIds :
        \* turns that overlap on one thread are not part of this model
        /\ tid \notin Busy
        /\ IF cid = NoId THEN tid \in Unused ELSE tid = cid
        \* identifiers are opaque: of those that name no thread, one stands for all
        /\ tid \in Unused => tid = Uuid4
        /\ thread_id' = [thread_id EXCEPT ![t] = tid]
        /\ out' = [out EXCEPT ![t] = CheckpointNote(cid = NoId, tid)]
    /\ is_new' = [is_new EXCEPT ![t] = (cid = NoId)]
    /\ message' = [message EXCEPT ![t] = m]
    /\ pc' = [pc EXCEPT ![t] = "start"]
    /\ messages' = [messages EXCEPT ![t] = << >>]
    /\ streamed' = [streamed EXCEPT ![t] = << >>]
    /\ tool_messages' = [tool_messages EXCEPT ![t] = << >>]
    /\ prior' = [prior EXCEPT ![t] = << >>]
    /\ events' = [events EXCEPT ![t] = << >>]
    /\ UNCHANGED <<store, steps, hung>>

\* graph.astream_events starts the run: the thread's checkpoint is loaded, the
\* input is written to the messages channel (tasks the checkpoint left pending
\* are discarded) and the input checkpoint is saved
GraphInput(t) ==
    /\ pc[t] = "start"
    /\ LET loaded == GetCheckpoint(store, thread_id[t])
           msgs == add_messages(loaded, InputMessages(is_new[t], message[t]))
       IN /\ prior' = [prior EXCEPT ![t] = loaded]
          /\ messages' = [messages EXCEPT ![t] = msgs]
          /\ store' = PutCheckpoint(store, thread_id[t], msgs)
    /\ pc' = [pc EXCEPT ![t] = "model"]
    /\ UNCHANGED <<thread_id, is_new, message, out, streamed,
                   tool_messages, steps, events, hung>>

\* a generator that puts what an event yields before what it has yielded
EmitFirst(t, e) ==
    /\ events' = [events EXCEPT ![t] = Append(@, e)]
    /\ out' = [out EXCEPT ![t] = Projection(e) \o @]

\* one event of the run reaches the async for loop of the generator
Emit(t, e) ==
    /\ events' = [events EXCEPT ![t] = Append(@, e)]
    /\ out' = [out EXCEPT ![t] = @ \o Projection(e)]

\* model: the call in flight streams one chunk
ModelStream(t, chunk) ==
    /\ pc[t] = "model"
    /\ InSteps(t)
    /\ steps < MaxSteps
    /\ \E s \in ModelStreams :
        /\ Len(s) > Len(streamed[t])
        /\ SubSeq(s, 1, Len(streamed[t]) + 1) = Append(streamed[t], chunk)
    /\ streamed' = [streamed EXCEPT ![t] = Append(@, chunk)]
    /\ Emit(t, Event("on_chat_model_stream", "ChatOpenAI", chunk))
    /\ UNCHANGED <<store, pc, thread_id, is_new, message, messages,
                   tool_messages, steps, prior, hung>>

\* the content of the message a stream of chunks adds up to
RECURSIVE Concat(_)
Concat(chunks) == IF chunks = << >> THEN << >> ELSE Head(chunks) \o Concat(Tail(chunks))

\* the identifiers the inference service gives the calls of one message
CallIds(msgs, calls) ==
    [k \in 1..Len(calls) |-> [calls[k] EXCEPT !.id = <<Len(msgs) + 1, k>>]]

\* model: llm_with_tools.ainvoke returns the assistant message
ModelStep(t, calls) ==
    /\ pc[t] = "model"
    /\ InSteps(t)
    /\ streamed[t] \in ModelStreams
    /\ LET tool_calls == CallIds(messages[t], calls)
           result == AIMessage(Concat(streamed[t]), tool_calls)
       IN /\ messages' = [messages EXCEPT ![t] = add_messages(@, <<result>>)]
          /\ Emit(t, Event("on_chat_model_end", "ChatOpenAI", tool_calls))
    /\ steps' = steps + 1
    /\ streamed' = [streamed EXCEPT ![t] = << >>]
    /\ pc' = [pc EXCEPT ![t] = "route"]
    /\ UNCHANGED <<store, thread_id, is_new, message, tool_messages, prior, hung>>

\* a model call that returns, of the model calls a behaviour may make
ModelReturn(t, calls) ==
    /\ steps < MaxSteps
    /\ ModelStep(t, calls)

\* the graph run is abandoned: its state goes with it
Release(t) ==
    /\ messages' = [messages EXCEPT ![t] = << >>]
    /\ streamed' = [streamed EXCEPT ![t] = << >>]
    /\ tool_messages' = [tool_messages EXCEPT ![t] = << >>]
    /\ prior' = [prior EXCEPT ![t] = << >>]
    /\ events' = [events EXCEPT ![t] = << >>]

\* a generator that ends the stream in a finally clause
GraphRaisesThenEnd(t) ==
    /\ pc' = [pc EXCEPT ![t] = "failed"]
    /\ out' = [out EXCEPT ![t] = @ \o EndNote]

\* what the generator does when the graph run raises: the exception leaves
\* generate_chat_responses, nothing more is yielded
GraphRaises(t) ==
    /\ pc' = [pc EXCEPT ![t] = "failed"]
    /\ UNCHANGED out

\* model: the call to the inference service raises
ModelRaises(t) ==
    /\ pc[t] = "model"
    /\ InSteps(t)
    /\ GraphRaises(t)
    /\ Release(t)
    /\ UNCHANGED <<store, thread_id, is_new, message, steps, hung>>

\* a router that looks at the message before the last one
tools_router_stale(msgs) ==
    LET message_before == msgs[Len(msgs) - 1]
    IN IF Len(message_before.tool_calls) > 0 THEN "tool_node" ELSE "END"

\* tools_router
tools_router(msgs) ==
    LET last_message == msgs[Len(msgs)]
    IN IF Len(last_message.tool_calls) > 0 THEN "tool_node" ELSE "END"

\* the conditional edge after model, and the checkpoint that ends the step;
\* on END the run is over, the event loop ends and the generator yields end
Route(t) ==
    /\ pc[t] = "route"
    /\ store' = PutCheckpoint(store, thread_id[t], messages[t])
    /\ IF tools_router(messages[t]) = "tool_node"
       THEN /\ pc' = [pc EXCEPT ![t] = "tools"]
            /\ UNCHANGED out
       ELSE /\ pc' = [pc EXCEPT ![t] = "done"]
            /\ out' = [out EXCEPT ![t] = @ \o EndNote]
    /\ tool_messages' = [tool_messages EXCEPT ![t] = << >>]
    /\ UNCHANGED <<thread_id, is_new, message, messages, streamed,
                   steps, prior, events, hung>>


\* ------------------------------------------------------------ tool adapter

\* list_tables_tool.ainvoke({}): the names of the tables
ListTables == [raised |-> FALSE, value |-> <<"Employees">>]

\* the queries the data source cannot run
BadQueries == {<<"SELEC">>}

\* query_sql_tool.ainvoke(tool_args): arguments without a query do not pass the
\* tool's argument schema and the tool raises; an error of the data source is
\* returned as text (the tool runs the query with run_no_throw)
QueryTool(tool_args) ==
    IF \A p \in tool_args : p[1] # "query"
    THEN [raised |-> TRUE, value |-> <<"validation error">>]
    ELSE IF Get(tool_args, "query", << >>) \in BadQueries
    THEN [raised |-> FALSE, value |-> <<"Error: ">> \o Get(tool_args, "query", << >>)]
    ELSE [raised |-> FALSE, value |-> <<"rows of ">> \o Get(tool_args, "query", << >>)]

\* a tool_node whose last branch is the query tool
InvocationElse(tool_name, tool_args) ==
    IF tool_name = LIST_TABLES THEN <<ListTables>>
    ELSE <<QueryTool(tool_args)>>

\* the invocation tool_node makes for a call, none for an unknown name
Invocation(tool_name, tool_args) ==
    IF tool_name = LIST_TABLES THEN <<ListTables>>
    ELSE IF tool_name = QUERY THEN <<QueryTool(tool_args)>>
    ELSE << >>

\* events that carry the name of the query tool whatever tool has run
ToolEventsAllQuery(tool_name, inv) ==
    IF inv = << >> THEN << >>
    ELSE IF inv[1].raised THEN <<Event("on_tool_error", QUERY, inv[1].value)>>
    ELSE <<Event("on_tool_end", QUERY, inv[1].value)>>

\* the events of the invocations: a tool that returns ends with on_tool_end,
\* one that raises with on_tool_error
ToolEvents(tool_name, inv) ==
    IF inv = << >> THEN << >>
    ELSE IF inv[1].raised THEN <<Event("on_tool_error", tool_name, inv[1].value)>>
    ELSE <<Event("on_tool_end", tool_name, inv[1].value)>>

\* the try statement of tool_node: the result of one call
ToolResult(tool_name, inv) ==
    IF inv = << >> THEN <<"Error: Unknown tool ", tool_name>>
    ELSE IF inv[1].raised THEN <<"Error executing tool: ">> \o inv[1].value
    ELSE inv[1].value

\* a tool_node that works on the calls from the last to the first
PendingCallsReversed(msgs) ==
    LET tool_calls == msgs[Len(msgs)].tool_calls
    IN [k \in 1..Len(tool_calls) |-> tool_calls[Len(tool_calls) - k + 1]]

\* the calls tool_node works on
PendingCalls(msgs) == msgs[Len(msgs)].tool_calls

\* tool_node: one iteration of the loop over the calls of the last message;
\* after the last one the node returns, the messages are added to the state,
\* the checkpoint that ends the step is saved and the edge leads to model
ToolNode(t) ==
    /\ pc[t] = "tools"
    /\ t \notin hung
    /\ LET tool_calls == PendingCalls(messages[t])
           tool_call == tool_calls[Len(tool_messages[t]) + 1]
           inv == Invocation(tool_call.name, tool_call.args)
           evs == ToolEvents(tool_call.name, inv)
           msg == ToolMessage(ToolResult(tool_call.name, inv), tool_call.id, tool_call.name)
           done == Append(tool_messages[t], msg)
       IN /\ events' = [events EXCEPT ![t] = @ \o evs]
          /\ out' = [out EXCEPT ![t] =
                        IF evs = << >> THEN @ ELSE @ \o Projection(evs[1])]
          /\ IF Len(done) = Len(tool_calls)
             THEN /\ messages' = [messages EXCEPT ![t] = add_messages(@, done)]
                  /\ store' = PutCheckpoint(store, thread_id[t], add_messages(messages[t], done))
                  /\ tool_messages' = [tool_messages EXCEPT ![t] = << >>]
                  /\ pc' = [pc EXCEPT ![t] = "model"]
             ELSE /\ tool_messages' = [tool_messages EXCEPT ![t] = done]
                  /\ UNCHANGED <<messages, store, pc>>
    /\ UNCHANGED <<thread_id, is_new, message, streamed, steps, prior, hung>>

\* the client goes away: the generator is cancelled at the await it is
\* suspended in, whatever the graph run was doing (CancelledError is no
\* Exception); the run's state is released and nobody reads the stream
Disconnect(t) ==
    /\ pc[t] \in Active
    /\ pc' = [pc EXCEPT ![t] = "cancelled"]
    /\ Release(t)
    /\ out' = [out EXCEPT ![t] = << >>]
    /\ hung' = hung \ {t}
    /\ UNCHANGED <<store, thread_id, is_new, message, steps>>

\* the calls whose tool works on the data source
RunsQuery(call) == call.name = QUERY /\ \E p \in call.args : p[1] = "query"

\* the data source never answers the query of the call tool_node works on:
\* tool_node awaits query_sql_tool.ainvoke without a timeout
ToolHangs(t) ==
    /\ pc[t] = "tools"
    /\ t \notin hung
    /\ RunsQuery(PendingCalls(messages[t])[Len(tool_messages[t]) + 1])
    /\ hung' = hung \cup {t}
    /\ UNCHANGED <<store, pc, thread_id, is_new, message, messages, out, streamed,
                   tool_messages, steps, prior, events>>

Next ==
    \/ \E t \in Turns, m \in UserMessages, cid \in ThreadIds \cup {NoId} : Begin(t, m, cid)
    \/ \E t \in Turns : GraphInput(t)
    \/ \E t \in Turns, chunk \in Chunks : ModelStream(t, chunk)
    \/ \E t \in Turns, calls \in ModelCalls : ModelReturn(t, calls)
    \/ \E t \in Turns : ModelRaises(t)
    \/ \E t \in Turns : Route(t)
    \/ \E t \in Turns : ToolNode(t)
    \/ \E t \in Turns : Disconnect(t)
    \/ \E t \in Turns : ToolHangs(t)

Spec == Init /\ [][Next]_vars

\* the run has made more supersteps than the limit and tasks are left: the
\* loop stops out of steps, astream_events raises GraphRecursionError, and the
\* exception leaves the generator
OutOfSteps(t) ==
    /\ pc[t] = "model"
    /\ ~InSteps(t)
    /\ GraphRaises(t)
    /\ Release(t)
    /\ UNCHANGED <<store, thread_id, is_new, message, steps, hung>>

\* the answers of a model that asks for one round of tools after another
LongCalls == {calls \in ModelCalls : Len(calls) <= 2}

\* one new conversation, with as many model calls as the graph run makes
NextLong ==
    \/ \E m \in UserMessages : Begin(1, m, NoId)
    \/ GraphInput(1)
    \/ \E calls \in LongCalls : ModelStep(1, calls)
    \/ Route(1)
    \/ ToolNode(1)
    \/ OutOfSteps(1)

SpecLong == Init /\ [][NextLong]_vars


\* ------------------------------------------------------------ properties

\* the positions of the notifications of a type
Positions(o, type) == {i \in 1..Len(o) : o[i].type = type}

\* a turn whose stream came to its end with the client listening
Finished(t) == pc[t] \in {"done", "failed"}

\* C1: the notifications of every turn that is over hold exactly one end, and
\* it is the last of them
C1_ExactlyOneEndLast ==
    \A t \in Turns :
        Finished(t) => Positions(out[t], "end") = {Len(out[t])} /\ out[t] # << >>

\* C2: the stream of a new conversation starts with the checkpoint notification
\* of its newly generated thread identifier, yielded before the graph run
\* produces any event, and holds no other; the stream of a turn started with a
\* checkpoint_id holds none
C2_CheckpointFirstIffNew ==
    \A t \in Turns :
        pc[t] \in Active \cup {"done", "failed"} =>
            /\ is_new[t] =>
                /\ Positions(out[t], "checkpoint") = {1}
                /\ out[t][1].data = thread_id[t]
                /\ prior[t] = << >>
                /\ pc[t] = "start" => store[thread_id[t]] = << >>
            /\ ~is_new[t] => Positions(out[t], "checkpoint") = {}
            /\ pc[t] = "start" => events[t] = << >> /\ Len(out[t]) <= 1

\* a new conversation and a turn that resumed it have both come to their end
C2_Witness ==
    \E t, u \in Turns :
        /\ is_new[t] /\ pc[t] = "done"
        /\ ~is_new[u] /\ pc[u] = "done" /\ prior[u] # << >>
        /\ thread_id[u] = thread_id[t]


\* the tool messages of a history that answer the call of the message at i
Answers(msgs, i, call) ==
    {j \in (i + 1)..Len(msgs) :
        /\ msgs[j].type = "tool"
        /\ msgs[j].tool_call_id = call.id
        /\ msgs[j].name = call.name}

\* every call of every assistant message of a history has exactly one answer
Answered(msgs) ==
    \A i \in 1..Len(msgs) :
        \A k \in 1..Len(msgs[i].tool_calls) :
            Cardinality(Answers(msgs, i, msgs[i].tool_calls[k])) = 1

\* C3: the history a model call is issued on holds exactly one tool message,
\* with the identifier and the tool name of the call, for every tool call of its
\* assistant messages
C3_RequestsAnsweredBeforeModel ==
    \A t \in Turns : pc[t] = "model" => Answered(messages[t])

\* the call the next iteration of tool_node works on
CurrentCall(t) == PendingCalls(messages[t])[Len(tool_messages[t]) + 1]

\* the tool message an iteration of tool_node has made
MadeBy(t) ==
    IF pc'[t] = "model" THEN messages'[t][Len(messages'[t])]
    ELSE tool_messages'[t][Len(tool_messages'[t])]

\* the step is one of the tool_node of turn t
ToolNodeStepped(t) ==
    <<pc[t], tool_messages[t], messages[t], events[t], out[t]>>
        # <<pc'[t], tool_messages'[t], messages'[t], events'[t], out'[t]>>

\* C4: an iteration of tool_node never ends the turn. For a call of an unknown
\* tool it runs no tool and makes a tool message with the unknown tool text;
\* when the tool raises it makes a tool message with the text of the exception;
\* the calls that remain are worked on next, and after the last call the tool
\* messages of all calls are in the history and the turn is back in model
C4_ToolFailureBecomesResult ==
    [][\A t \in Turns :
        pc[t] = "tools" /\ pc'[t] # "cancelled" /\ ToolNodeStepped(t) =>
            LET calls == PendingCalls(messages[t])
                k == Len(tool_messages[t]) + 1
                call == CurrentCall(t)
                new_events == SubSeq(events'[t], Len(events[t]) + 1, Len(events'[t]))
            IN /\ MadeBy(t).type = "tool"
               /\ MadeBy(t).tool_call_id = call.id
               /\ MadeBy(t).name = call.name
               /\ call.name \notin {LIST_TABLES, QUERY} =>
                    /\ new_events = << >>
                    /\ MadeBy(t).content = <<"Error: Unknown tool ", call.name>>
               /\ call.name \in {LIST_TABLES, QUERY} =>
                    /\ Len(new_events) = 1
                    /\ new_events[1].event = "on_tool_error" =>
                        MadeBy(t).content = <<"Error executing tool: ">> \o new_events[1].data
               /\ k < Len(calls) => pc'[t] = "tools" /\ Len(tool_messages'[t]) = k
               /\ k = Len(calls) =>
                    /\ pc'[t] = "model"
                    /\ Len(messages'[t]) = Len(messages[t]) + Len(calls)
                    /\ \A j \in 1..Len(calls) :
                        LET made == messages'[t][Len(messages[t]) + j]
                        IN /\ made.type = "tool"
                           /\ made.tool_call_id = calls[j].id
                           /\ made.name = calls[j].name]_vars

\* a tool_node step is over in which a call named an unknown tool, the tool of
\* the next call raised and the tool of the call after it returned
C4_Witness ==
    \E t \in Turns :
        /\ pc[t] = "model"
        /\ Len(messages[t]) > 3
        /\ LET n == Len(messages[t])
           IN /\ messages[t][n - 2].content = <<"Error: Unknown tool ", OTHER_TOOL>>
              /\ messages[t][n - 1].content[1] = "Error executing tool: "
              /\ messages[t][n].content = <<"Employees">>


\* the last message of the run of turn t
LastMessage(t) == messages[t][Len(messages[t])]

\* C5: a model step is followed by the router, which reads the assistant message
\* the step appended: the turn goes to tool_node if and only if that message
\* carries tool calls, and is over otherwise; tool_node is followed by model;
\* a turn is done only from the router, on a message without tool calls
C5_RouterDecides ==
    [][\A t \in Turns :
        /\ pc[t] = "model" => pc'[t] \in {"model", "route", "failed", "cancelled"}
        /\ pc[t] = "model" /\ pc'[t] = "route" =>
            /\ Len(messages'[t]) = Len(messages[t]) + 1
            /\ messages'[t][Len(messages'[t])].type = "ai"
        /\ pc[t] = "route" => pc'[t] \in {"route", "tools", "done", "cancelled"}
        /\ pc[t] = "route" /\ pc'[t] = "tools" => Len(LastMessage(t).tool_calls) >= 1
        /\ pc[t] = "route" /\ pc'[t] = "done" => Len(LastMessage(t).tool_calls) = 0
        /\ pc[t] = "tools" => pc'[t] \in {"tools", "model", "cancelled"}
        /\ pc'[t] = "done" => pc[t] \in {"route", "done"}
        /\ pc'[t] = "tools" => pc[t] \in {"route", "tools"}]_vars

\* a turn is done whose first assistant message carried tool calls and whose
\* second one carried none
C5_Witness ==
    \E t \in Turns :
        /\ pc[t] = "done"
        /\ \E i \in 1..Len(messages[t]) : messages[t][i].type = "tool"
        /\ Len(LastMessage(t).tool_calls) = 0

\* the turn was started with a checkpoint_id that names no thread
UnknownId(t) == ~is_new[t] /\ prior[t] = << >> /\ pc[t] \in {"model", "route", "tools", "done"}

\* C6: a turn started with a checkpoint_id unknown to the store gives the model
\* the history a new conversation with the same message gives it: the system
\* message, then the human message
C6_UnknownIdLikeNewConversation ==
    \A t \in Turns :
        UnknownId(t) =>
            /\ Len(messages[t]) >= 2
            /\ SubSeq(messages[t], 1, 2) = InputMessages(TRUE, message[t])

\* C7: every thread of the store that has messages starts with the system
\* message and holds no other system message
C7_SystemMessageFirstAndOnly ==
    \A i \in ThreadIds :
        store[i] # << >> =>
            /\ store[i][1] = SystemMessage(SYSTEM_PROMPT)
            /\ {j \in 1..Len(store[i]) : store[i][j].type = "system"} = {1}

\* C8: when the model call raises the turn is over: nothing is yielded then or
\* later, the stream has no end notification, the checkpoint of the thread
\* stays as it was, and only a model call ends a turn this way
C8_ModelFailureEndsStream ==
    [][\A t \in Turns :
        /\ pc[t] = "failed" => pc'[t] = "failed"
        /\ pc'[t] = "failed" =>
            /\ pc[t] \in {"model", "failed"}
            /\ out'[t] = out[t]
            /\ Positions(out'[t], "end") = {}
            /\ pc[t] = "model" => store' = store]_vars

\* a model call has raised after notifications were yielded for the turn
C8_Witness ==
    \E t \in Turns :
        /\ pc[t] = "failed"
        /\ Positions(out[t], "content") # {}
        /\ Positions(out[t], "sql_query_result") # {}

\* C9: the history a cancelled turn has left in the store is resumable: a model
\* call on it and the human message of a later turn finds a tool message for
\* every tool call
C9_ResumableAfterDisconnect ==
    \A t \in Turns :
        pc[t] = "cancelled" /\ thread_id[t] \notin Busy =>
            \A m \in UserMessages :
                Answered(add_messages(GetCheckpoint(store, thread_id[t]),
                                      InputMessages(FALSE, m)))

\* the notifications the events of a run yield
RECURSIVE ProjectAll(_)
ProjectAll(evs) ==
    IF evs = << >> THEN << >> ELSE Projection(Head(evs)) \o ProjectAll(Tail(evs))

\* C10: whatever a turn on another thread does, the checkpoint of the thread
\* of a running turn is the one its own run saved last, that is its messages up
\* to the step in progress, and the notifications of the turn are those of its
\* own events
C10_ThreadsDoNotInterfere ==
    \A t \in Turns :
        /\ pc[t] \in {"model", "tools"} => store[thread_id[t]] = messages[t]
        /\ pc[t] = "route" =>
            store[thread_id[t]] = SubSeq(messages[t], 1, Len(messages[t]) - 1)
        /\ pc[t] \in Active =>
            /\ out[t] = CheckpointNote(is_new[t], thread_id[t]) \o ProjectAll(events[t])
            /\ \A u \in Turns \ {t} : pc[u] \in Active => thread_id[u] # thread_id[t]
        /\ pc[t] \in {"model", "route", "tools"} =>
            SubSeq(messages[t], 1, Len(prior[t]) + Len(InputMessages(is_new[t], message[t])))
                = prior[t] \o InputMessages(is_new[t], message[t])

\* two turns on different threads are running, each after a model call of its own
C10_Witness ==
    \E t, u \in Turns :
        /\ pc[t] = "tools" /\ pc[u] = "tools"
        /\ thread_id[t] # thread_id[u]
        /\ tool_messages[t] # << >>


\* C11: a turn never waits on a tool for ever: whenever tool_node is at work,
\* its iteration in progress can come to an end by itself (the tool returns,
\* raises, or is timed out and answered with an error message), so that the
\* step completes and the turn goes on to model
C11_ToolStepCompletes ==
    \A t \in Turns : pc[t] = "tools" => ENABLED ToolNode(t)

\* the events of a kind among the events of a turn, in their order
EventsOf(t, kinds) == SelectSeq(events[t], LAMBDA e : e.event \in kinds)

\* the model calls of a turn that have returned, in their order
ModelEnds(t) == EventsOf(t, {"on_chat_model_end"})

\* the first model call of turn t has returned a message without tool calls
FirstCallWithoutRequests(t) ==
    /\ pc[t] \in Active \cup {"done", "failed"}
    /\ ModelEnds(t) # << >>
    /\ Len(ModelEnds(t)[1].data) = 0

\* C12 as stated: in a turn whose first model call returns no tool call, the
\* notifications are content and end notifications only
C12_OnlyContentAndEnd ==
    \A t \in Turns :
        FirstCallWithoutRequests(t) =>
            \A i \in 1..Len(out[t]) : out[t][i].type \in {"content", "end"}

\* C12: in a turn whose first model call returns no tool call, the router ends
\* the turn: the model is called once, no tool runs, no tool message is made,
\* and the notifications are the checkpoint (first, in a new conversation
\* only), then content notifications, then end once the turn is done
C12_DirectlyDone ==
    \A t \in Turns :
        FirstCallWithoutRequests(t) =>
            /\ pc[t] \in {"route", "done"}
            /\ Len(ModelEnds(t)) = 1
            /\ EventsOf(t, {"on_tool_end", "on_tool_error"}) = << >>
            /\ Len(TurnMessages(t)) = 1
            /\ TurnMessages(t)[1].type = "ai"
            /\ \A i \in 1..Len(out[t]) : out[t][i].type \in {"checkpoint", "content", "end"}
            /\ Positions(out[t], "checkpoint") = IF is_new[t] THEN {1} ELSE {}
            /\ Positions(out[t], "end") = IF pc[t] = "done" THEN {Len(out[t])} ELSE {}

\* a new conversation is done after one model call that streamed text and
\* asked for no tool
C12_Witness ==
    \E t \in Turns :
        /\ pc[t] = "done"
        /\ is_new[t]
        /\ Len(ModelEnds(t)) = 1
        /\ Len(ModelEnds(t)[1].data) = 0
        /\ Positions(out[t], "content") # {}


\* C13: the rounds of model and tools of a turn are as many as the model asks
\* for, whatever their number: every model call that returns tool calls is
\* followed by a round of tools and then by another model call, and the turn
\* is done, with end as its last notification, exactly after the first model
\* call that returns none: after n calls with tool calls and one without, n
\* rounds of tools have run
C13_CyclesUntilNoRequests ==
    \A t \in Turns :
        LET ends == ModelEnds(t)
            n == Len(ends)
        IN /\ pc[t] \in {"route", "tools", "done"} =>
                /\ n >= 1
                /\ \A k \in 1..(n - 1) : Len(ends[k].data) > 0
                /\ ToolSteps(t) = n - 1
           /\ pc[t] = "tools" => Len(ends[n].data) > 0
           /\ pc[t] = "model" =>
                /\ \A k \in 1..n : Len(ends[k].data) > 0
                /\ ToolSteps(t) = n
                \* the model call that follows the round of tools is made
                /\ InSteps(t)
           /\ pc[t] = "done" =>
                /\ Len(ends[n].data) = 0
                /\ out[t][Len(out[t])].type = "end"

\* what a step has added to the events and to the notifications of turn t
NewEvents(t) == SubSeq(events'[t], Len(events[t]) + 1, Len(events'[t]))
NewNotes(t) == SubSeq(out'[t], Len(out[t]) + 1, Len(out'[t]))

\* the places of the query calls among the calls of a message
QueryPlaces(calls) == {k \in 1..Len(calls) : calls[k].name = QUERY}

\* the query string of a call, empty when the call has none
QueryString(call) ==
    IF \E p \in call.args : p[1] = "query"
    THEN (CHOOSE p \in call.args : p[1] = "query")[2]
    ELSE << >>

\* C14: a model call that returns produces one model end event; when the
\* message it returned holds calls of sql_db_query the event yields exactly
\* one sql_query_start, with the query string of the first of them, and when
\* it holds none (no call, or calls of other tools only) it yields nothing
C14_QueryStartForFirstQuery ==
    [][\A t \in Turns :
        pc[t] = "model" /\ pc'[t] = "route" =>
            LET calls == messages'[t][Len(messages'[t])].tool_calls
                places == QueryPlaces(calls)
            IN /\ Len(NewEvents(t)) = 1
               /\ NewEvents(t)[1].event = "on_chat_model_end"
               /\ places = {} => NewNotes(t) = << >>
               /\ places # {} =>
                    LET first == CHOOSE k \in places : \A j \in places : k <= j
                    IN NewNotes(t) = <<Note("sql_query_start", QueryString(calls[first]))>>]_vars

\* a model call has returned two query calls and the start of the first was
\* yielded, and one has returned calls of which the second is a query call
\* without a query string, after an unknown tool
C14_Witness ==
    \E t, u \in Turns :
        /\ pc[t] = "route" /\ pc[u] = "route"
        /\ Cardinality(QueryPlaces(LastMessage(t).tool_calls)) = 2
        /\ out[t][Len(out[t])] = Note("sql_query_start", <<"SELEC">>)
        /\ QueryPlaces(LastMessage(u).tool_calls) = {2}
        /\ out[u][Len(out[u])] = Note("sql_query_start", << >>)


IsPrefix(p, s) == Len(p) <= Len(s) /\ SubSeq(s, 1, Len(p)) = p

\* the types of the notifications of a sequence
Types(notes) == {notes[i].type : i \in 1..Len(notes)}

\* C16: every event of a turn yields no notification or one, put behind all
\* that were yielded before it, so that the notifications follow one another
\* as their events do. The events of a model call come while the turn is in
\* model: the fragments first, each yielding a content notification with the
\* fragment as it is exactly when the fragment is not empty, then the model end,
\* which yields at most a sql_query_start and closes the step; the events of
\* the tools come in the tool_node step after it and yield at most a
\* sql_query_result each; a step without an event yields only the checkpoint
\* (the first step of the turn) or the end (its last)
C16_ProjectionKeepsOrder ==
    [][\A t \in Turns :
        /\ events'[t] # events[t] /\ pc'[t] \notin {"cancelled", "failed"} =>
            /\ IsPrefix(events[t], events'[t])
            /\ IsPrefix(out[t], out'[t])
            /\ Len(NewEvents(t)) = 1
            /\ Len(NewNotes(t)) <= 1
            /\ LET e == NewEvents(t)[1]
               IN /\ e.event = "on_chat_model_stream" =>
                       /\ pc[t] = "model" /\ pc'[t] = "model"
                       /\ Len(e.data) > 0 => NewNotes(t) = <<Note("content", e.data)>>
                       /\ Len(e.data) = 0 => NewNotes(t) = << >>
                  /\ e.event = "on_chat_model_end" =>
                       /\ pc[t] = "model" /\ pc'[t] = "route"
                       /\ Types(NewNotes(t)) \subseteq {"sql_query_start"}
                  /\ e.event \in {"on_tool_end", "on_tool_error"} =>
                       /\ pc[t] = "tools" /\ pc'[t] \in {"tools", "model"}
                       /\ Types(NewNotes(t)) \subseteq {"sql_query_result"}
                  /\ e.event \in {"on_chat_model_stream", "on_chat_model_end",
                                   "on_tool_end", "on_tool_error"}
        /\ events'[t] = events[t] /\ out'[t] # out[t] /\ pc'[t] # "cancelled" =>
            /\ IsPrefix(out[t], out'[t])
            /\ \/ pc[t] = "idle" /\ Types(NewNotes(t)) = {"checkpoint"}
               \/ pc'[t] = "done" /\ NewNotes(t) = EndNote]_vars

\* a turn has streamed an empty fragment and a fragment of text, yielded the
\* start and the results of its queries, and streamed again after its tools
C16_Witness ==
    \E t \in Turns :
        /\ \E i \in 1..Len(events[t]) :
                events[t][i].event = "on_chat_model_stream" /\ Len(events[t][i].data) = 0
        /\ \E i, j, k, l \in 1..Len(out[t]) :
                /\ i < j /\ j < k /\ k < l
                /\ out[t][i].type = "content"
                /\ out[t][j].type = "sql_query_start"
                /\ out[t][k].type = "sql_query_result"
                /\ out[t][l].type = "content"

\* C17: the messages of a thread are only ever added to: what the store holds
\* for a thread before a step is the beginning of what it holds after it, and
\* so are the messages of a run. The model is called on all the messages of
\* the thread: those the earlier turns left in the store, then the input of
\* the turn, then what the run has added, which is also what the store holds
\* for the thread; the call adds the assistant message behind them
C17_AppendOnlyFullHistory ==
    [][/\ \A i \in ThreadIds : IsPrefix(store[i], store'[i])
       /\ \A t \in Turns :
            /\ pc[t] = "start" /\ pc'[t] = "model" =>
                 /\ prior'[t] = store[thread_id[t]]
                 /\ messages'[t] = prior'[t] \o InputMessages(is_new[t], message[t])
            /\ pc[t] \in {"model", "route", "tools"} /\ pc'[t] \in {"model", "route", "tools"} =>
                 /\ IsPrefix(messages[t], messages'[t])
                 /\ prior'[t] = prior[t]
            /\ pc[t] = "model" /\ pc'[t] = "route" =>
                 /\ messages[t] = store[thread_id[t]]
                 /\ IsPrefix(prior[t] \o InputMessages(is_new[t], message[t]), messages[t])
                 /\ Len(messages'[t]) = Len(messages[t]) + 1
                 /\ messages'[t][Len(messages'[t])].type = "ai"]_vars

\* the model has been called in a turn that resumed a thread, after a round of
\* tools of that turn
C17_Witness ==
    \E t \in Turns :
        /\ pc[t] = "route"
        /\ prior[t] # << >>
        /\ ToolSteps(t) >= 1


\* the model end event that came last before the event at place i
StepOf(evs, i) ==
    CHOOSE m \in 1..(i - 1) :
        /\ evs[m].event = "on_chat_model_end"
        /\ \A j \in (m + 1)..(i - 1) : evs[j].event # "on_chat_model_end"

\* C18: every sql_query_result of a turn comes right after a sql_query_start
\* or after another sql_query_result, so that the notification that comes last
\* before its round of results is a sql_query_start and none comes before the
\* first sql_query_start; and the event of the result comes after a model end
\* with nothing but tool events between them, the message of that model end
\* holds the query call whose output the result is, and so that model end
\* yielded the sql_query_start
C18_ResultAfterStart ==
    \A t \in Turns :
        /\ \A k \in Positions(out[t], "sql_query_result") :
                k > 1 /\ out[t][k - 1].type \in {"sql_query_start", "sql_query_result"}
        /\ \A i \in 1..Len(events[t]) :
                events[t][i].event = "on_tool_end" /\ events[t][i].name = QUERY =>
                    /\ \E m \in 1..(i - 1) : events[t][m].event = "on_chat_model_end"
                    /\ LET m == StepOf(events[t], i)
                       IN /\ \A j \in (m + 1)..(i - 1) :
                                events[t][j].event \in {"on_tool_end", "on_tool_error"}
                          /\ \E c \in QueryPlaces(events[t][m].data) :
                                QueryTool(events[t][m].data[c].args).value = events[t][i].data
                          /\ Projection(events[t][m]) # << >>

\* the results of two queries were yielded after the start of the first, in a
\* round of tools that followed one without a query
C18_Witness ==
    \E t \in Turns :
        /\ Len(out[t]) >= 3
        /\ LET n == Len(out[t])
           IN /\ out[t][n - 2].type = "sql_query_start"
              /\ out[t][n - 1].type = "sql_query_result"
              /\ out[t][n].type = "sql_query_result"
        /\ \E i \in 1..Len(events[t]) :
                events[t][i].event = "on_tool_end" /\ events[t][i].name = LIST_TABLES


\* the tool messages that follow the message at place i of a history
BatchAfter(msgs, i) ==
    {j \in (i + 1)..Len(msgs) : \A k \in (i + 1)..j : msgs[k].type = "tool"}

\* every assistant message of a history is followed by a tool message for each
\* of its calls, in the order of the calls, or by none
NoPartialResults(msgs) ==
    \A i \in 1..Len(msgs) :
        msgs[i].type = "ai" =>
            \/ BatchAfter(msgs, i) = {}
            \/ /\ Cardinality(BatchAfter(msgs, i)) = Len(msgs[i].tool_calls)
               /\ \A k \in 1..Len(msgs[i].tool_calls) :
                    msgs[i + k].tool_call_id = msgs[i].tool_calls[k].id

\* C19: the k-th iteration of tool_node works on the k-th call of the last
\* assistant message; until the last call is worked on nothing is added to the
\* messages of the run or of the thread; the last iteration adds the tool
\* messages of all the calls at once, in the order of the calls, and leads to
\* model; at no time does a thread hold tool messages for a part of the calls
\* of an assistant message
C19_ToolResultsInOneBatch ==
    [][/\ \A i \in ThreadIds : NoPartialResults(store'[i])
       /\ \A t \in Turns :
            pc[t] = "tools" /\ pc'[t] # "cancelled" /\ ToolNodeStepped(t) =>
                LET calls == messages[t][Len(messages[t])].tool_calls
                    k == Len(tool_messages[t]) + 1
                IN /\ MadeBy(t).tool_call_id = calls[k].id
                   /\ MadeBy(t).name = calls[k].name
                   /\ k < Len(calls) =>
                        /\ tool_messages'[t] = Append(tool_messages[t], MadeBy(t))
                        /\ messages'[t] = messages[t]
                        /\ store'[thread_id[t]] = store[thread_id[t]]
                        /\ pc'[t] = "tools"
                   /\ k = Len(calls) =>
                        /\ messages'[t] = messages[t] \o Append(tool_messages[t], MadeBy(t))
                        /\ store'[thread_id[t]] = messages'[t]
                        /\ NoPartialResults(messages'[t])
                        /\ pc'[t] = "model"]_vars

\* a round of tools with three calls is over: their three tool messages, in
\* the order of the calls, are the last messages of the thread
C19_Witness ==
    \E t \in Turns :
        /\ pc[t] = "model"
        /\ Len(messages[t]) > 3
        /\ LET n == Len(messages[t])
           IN /\ Len(messages[t][n - 3].tool_calls) = 3
              /\ \A k \in 1..3 :
                    messages[t][n - 3 + k].tool_call_id = messages[t][n - 3].tool_calls[k].id
              /\ store[thread_id[t]] = messages[t]

=============================================================================
